---- MODULE Spec2Model ----
(***************************************************************************)
(* LRU cache with per-entry TTL (package cache, src/unnamed/part_000).     *)
(*                                                                         *)
(* The cache struct is a map from key to *list.Element plus a              *)
(* container/list of *item{key, value, ttl}, guarded by one sync.Mutex.    *)
(* A goroutine started by NewCache (deleteByTTL) sweeps the list on every  *)
(* ticker tick; StopTTLRemoval ends it through the unbuffered channel      *)
(* done.                                                                   *)
(*                                                                         *)
(* Heap: list elements live in elems, a function from element address to   *)
(* the item it holds; items maps a key to an element address and list is   *)
(* the sequence of element addresses from Front to Back.                   *)
(* Time: time.Time is an integer; the zero time.Time{} is 0 and the clock  *)
(* now is always after it.                                                 *)
(*                                                                         *)
(* Spec takes every method as one step under the mutex and the sweep       *)
(* iteration by iteration; CacheSpec is Spec without StopTTLRemoval;       *)
(* ConcSpec splits the methods of two caller goroutines into Lock, body    *)
(* and Unlock; FairSpec adds the fairness of the sweep; AnyValueSpec calls *)
(* Add and AddWithTTL with values of uncomparable types as well; DraftSpec *)
(* is the draft of src/unnamed/part_001, whose Get calls Remove.           *)
(***************************************************************************)
EXTENDS Integers, Sequences, FiniteSets

VARIABLES
    cap,        \* the argument NewCache is called with
    err,        \* error of NewCache: "unset" until it returns, then "nil" or "invalid capacity"
    capacity,   \* c.capacity
    items,      \* c.items : key -> element address
    list,       \* c.list  : element addresses, Front first
    elems,      \* heap of list elements: address -> item
    mu,         \* c.mu    : "unlocked" or the holder
    rpc,        \* position of the deleteByTTL goroutine
    ticker,     \* TRUE while the goroutine's ticker is armed
    elem,       \* deleteByTTL's loop variable elem (Nil = nil)
    sending,    \* StopTTLRemoval calls blocked in c.done <- struct{}{}
    returned,   \* StopTTLRemoval calls that have returned
    now,        \* time.Now()
    pc,         \* position of each caller goroutine inside the method it called
    base,       \* items, list and elems when the mutex was last free
    hist,       \* the calls and sweeps that took the mutex since, in that order
    panicked,   \* TRUE once a call has ended in a run-time panic
    stack       \* the frames of the methods each caller goroutine is inside, innermost last

vars == <<cap, err, capacity, items, list, elems, mu, rpc, ticker, elem,
          sending, returned, now, pc, base, hist, panicked, stack>>

-----------------------------------------------------------------------------
(* Bounds *)

MaxCap == 2
MaxTime == 4
MaxStops == 2

Keys == {"A", "B", "C"}
Values == {"x", "y"}
\* values of a dynamic type without ==: slices (maps and funcs are alike)
Slices == {"[]int{1}"}
\* the values tried where the type of the value matters: a string and a slice
AnyValues == {"x"} \cup Slices

\* arguments tried for NewCache
Caps == (-1)..MaxCap
\* durations tried for AddWithTTL: negative, zero and positive
TTLs == {-1, 0, 1}
\* the clock starts late enough that now+ttl is never the zero time
StartTime == 2

Nil == 0
\* the goroutines that call the methods at the same time
Callers == {"c1", "c2"}
ElemIds == 1..(Cardinality(Keys) + 2)
NoValue == "nil"

\* the calls the concurrent callers make
ConcValues == {"x"}
ConcTTLs == {-1, 1}
Calls ==
    {[name |-> "Add", key |-> k, value |-> v, ttl |-> 0] : k \in Keys, v \in ConcValues}
        \cup {[name |-> "AddWithTTL", key |-> k, value |-> v, ttl |-> d] :
                    k \in Keys, v \in ConcValues, d \in ConcTTLs}
        \cup {[name |-> "Get", key |-> k, value |-> NoValue, ttl |-> 0] : k \in Keys}
        \cup {[name |-> "Remove", key |-> k, value |-> NoValue, ttl |-> 0] : k \in Keys}
        \cup {[name |-> "Clear", key |-> "", value |-> NoValue, ttl |-> 0]}
\* a sweep of deleteByTTL, in hist
SweepCall == [name |-> "sweep", key |-> "", value |-> NoValue, ttl |-> 0]
\* what a method without results returns
NoRet == <<>>

-----------------------------------------------------------------------------
(* time.Time *)

\* t.IsZero()
IsZero(t) == t = 0

\* t.Before(u)
Before(t, u) == t < u

\* time.Now().Add(ttl)
Deadline(t, ttl) == t + ttl

-----------------------------------------------------------------------------
(* container/list, on sequences of element addresses *)

Range(f) == {f[x] : x \in DOMAIN f}

Front(l) == IF l = <<>> THEN Nil ELSE l[1]

Back(l) == IF l = <<>> THEN Nil ELSE l[Len(l)]

\* e.Next(): the element after e in l, nil for the last element and for an
\* element that is not in l (List.Remove clears e.next and e.list)
NextElem(l, e) ==
    IF \E i \in 1..(Len(l) - 1) : l[i] = e
    THEN l[(CHOOSE i \in 1..(Len(l) - 1) : l[i] = e) + 1]
    ELSE Nil

ListRemove(l, e) == SelectSeq(l, LAMBDA x : x # e)

MoveToFront(l, e) == IF e \in Range(l) THEN <<e>> \o ListRemove(l, e) ELSE l

PushFront(l, e) == <<e>> \o l

\* Address of a newly allocated element.  The allocator may return any free
\* address and the program never compares addresses of different elements,
\* so the model takes the slot set aside for the key when it is free and the
\* lowest free slot otherwise.
KeySlot(key) == CASE key = "A" -> 1 [] key = "B" -> 2 [] OTHER -> 3

NewElem(h, key) ==
    IF KeySlot(key) \notin DOMAIN h
    THEN KeySlot(key)
    ELSE CHOOSE e \in ElemIds \ DOMAIN h : \A f \in ElemIds \ DOMAIN h : e <= f

\* elements no longer referenced from the map or the list are garbage
Collect(c) ==
    [c EXCEPT !.elems = [e \in (Range(c.items) \cup Range(c.list)) \cap DOMAIN c.elems |-> c.elems[e]]]

\* delete(m, k)
MapDelete(m, k) == [x \in DOMAIN m \ {k} |-> m[x]]

\* m[k] = e
MapSet(m, k, e) == [x \in DOMAIN m \cup {k} |-> IF x = k THEN e ELSE m[x]]

-----------------------------------------------------------------------------
(* the cache struct as a value, and the unexported helpers *)

Cache == [capacity |-> capacity, items |-> items, list |-> list, elems |-> elems]

EmptyMap == [x \in {} |-> Nil]

\* deleteItem without delete(c.items, ...): the element leaves the list only
deleteItem_keepsIndex(c, key) ==
    IF key \in DOMAIN c.items
    THEN Collect([c EXCEPT !.list = ListRemove(c.list, c.items[key])])
    ELSE c

deleteItem(c, key) ==
    IF key \in DOMAIN c.items
    THEN LET e == c.items[key]
         IN  Collect([c EXCEPT !.list = ListRemove(c.list, e),
                               !.items = MapDelete(c.items, c.elems[e].key)])
    ELSE c

\* deleteLRU that takes c.list.Front() instead of c.list.Back()
deleteLRU_front(c) ==
    LET e == Front(c.list)
    IN  IF e # Nil
        THEN Collect([c EXCEPT !.list = ListRemove(c.list, e),
                               !.items = MapDelete(c.items, c.elems[e].key)])
        ELSE c

\* deleteLRU without delete(c.items, ...): the element leaves the list only
deleteLRU_keepsIndex(c) ==
    LET e == Back(c.list)
    IN  IF e # Nil
        THEN Collect([c EXCEPT !.list = ListRemove(c.list, e)])
        ELSE c

deleteLRU(c) ==
    LET e == Back(c.list)
    IN  IF e # Nil
        THEN Collect([c EXCEPT !.list = ListRemove(c.list, e),
                               !.items = MapDelete(c.items, c.elems[e].key)])
        ELSE c


\* insert that tests Len() > capacity instead of Len() >= capacity
insert_offByOne(c, key, value, ttl) ==
    LET c1 == IF Len(c.list) > c.capacity THEN deleteLRU(c) ELSE c
        e == NewElem(c1.elems, key)
    IN  [c1 EXCEPT !.elems = MapSet(c1.elems, e, [key |-> key, value |-> value, ttl |-> ttl]),
                   !.list = PushFront(c1.list, e),
                   !.items = MapSet(c1.items, key, e)]

\* &item{key: key, value: value, ttl: ttl} pushed to the front and indexed
insert(c, key, value, ttl) ==
    LET c1 == IF Len(c.list) >= c.capacity THEN deleteLRU(c) ELSE c
        e == NewElem(c1.elems, key)
    IN  [c1 EXCEPT !.elems = MapSet(c1.elems, e, [key |-> key, value |-> value, ttl |-> ttl]),
                   !.list = PushFront(c1.list, e),
                   !.items = MapSet(c1.items, key, e)]

\* the dynamic type of an interface{} value
TypeOf(v) == IF v \in Slices THEN "[]int" ELSE "string"

\* the types Go can compare with == and !=
Comparable(ty) == ty # "[]int"

\* old != new on two interface{} values panics ("comparing uncomparable
\* type") when both hold the same dynamic type and that type has no ==;
\* values of different dynamic types are unequal without a panic
ComparePanics(old, new) == TypeOf(old) = TypeOf(new) /\ ~Comparable(TypeOf(new))

\* the comparison at the head of the update branch panics
updatePanics(c, key, value) ==
    /\ key \in DOMAIN c.items
    /\ ComparePanics(c.elems[c.items[key]].value, value)

\* update that assigns when the values are equal instead of when they differ
update_keepsValue(c, key, value, ttl) ==
    LET e == c.items[key]
        v == IF c.elems[e].value = value THEN value ELSE c.elems[e].value
    IN  [c EXCEPT !.elems = [c.elems EXCEPT ![e] = [key |-> c.elems[e].key, value |-> v, ttl |-> ttl]],
                  !.list = MoveToFront(c.list, e)]

\* the branch of Add and AddWithTTL for a key that is in the map, when the
\* comparison of the values does not panic
update(c, key, value, ttl) ==
    LET e == c.items[key]
        v == IF c.elems[e].value # value THEN value ELSE c.elems[e].value
    IN  [c EXCEPT !.elems = [c.elems EXCEPT ![e] = [key |-> c.elems[e].key, value |-> v, ttl |-> ttl]],
                  !.list = MoveToFront(c.list, e)]

-----------------------------------------------------------------------------
(* the exported methods, as functions of the cache value *)

\* Add that makes room before it looks the key up
Add_evictsFirst(c, key, value) ==
    LET c1 == IF Len(c.list) >= c.capacity THEN deleteLRU(c) ELSE c
    IN  IF key \in DOMAIN c1.items
        THEN update(c1, key, value, 0)
        ELSE insert(c1, key, value, 0)

Add(c, key, value) ==
    IF key \in DOMAIN c.items
    THEN update(c, key, value, 0)
    ELSE insert(c, key, value, 0)

\* AddWithTTL that leaves the ttl of a stored key as it is
AddWithTTL_keepsExpiry(c, key, value, ttl, t) ==
    IF key \in DOMAIN c.items
    THEN update(c, key, value, c.elems[c.items[key]].ttl)
    ELSE insert(c, key, value, Deadline(t, ttl))

AddWithTTL(c, key, value, ttl, t) ==
    IF key \in DOMAIN c.items
    THEN update(c, key, value, Deadline(t, ttl))
    ELSE insert(c, key, value, Deadline(t, ttl))

\* the test of the draft in src/main.go: ttl.After(time.Now())
GetExpired_after(ttl, t) == ttl > t

\* the test Get makes before it deletes an entry
GetExpired(ttl, t) == ~IsZero(ttl) /\ Before(ttl, t)

\* the test of the draft in src/main.go, in the sweep: ttl.After(time.Now())
SweepExpired_after(ttl, t) == ttl > t

\* the test deleteByTTL makes before it deletes an entry
SweepExpired(ttl, t) == Before(ttl, t)

\* Get that deletes the element at the back when it finds the key expired
Get_evictsBack(c, key, t) ==
    IF key \notin DOMAIN c.items
    THEN [c |-> c, value |-> NoValue, ok |-> FALSE]
    ELSE LET e == c.items[key]
         IN  IF GetExpired(c.elems[e].ttl, t)
             THEN [c |-> deleteLRU(c), value |-> NoValue, ok |-> FALSE]
             ELSE [c |-> [c EXCEPT !.list = MoveToFront(c.list, e)],
                   value |-> c.elems[e].value, ok |-> TRUE]

\* Get without c.list.MoveToFront(elem)
Get_noMove(c, key, t) ==
    IF key \notin DOMAIN c.items
    THEN [c |-> c, value |-> NoValue, ok |-> FALSE]
    ELSE LET e == c.items[key]
         IN  IF GetExpired(c.elems[e].ttl, t)
             THEN [c |-> deleteItem(c, c.elems[e].key), value |-> NoValue, ok |-> FALSE]
             ELSE [c |-> c, value |-> c.elems[e].value, ok |-> TRUE]

Get(c, key, t) ==
    IF key \notin DOMAIN c.items
    THEN [c |-> c, value |-> NoValue, ok |-> FALSE]
    ELSE LET e == c.items[key]
         IN  IF GetExpired(c.elems[e].ttl, t)
             THEN [c |-> deleteItem(c, c.elems[e].key), value |-> NoValue, ok |-> FALSE]
             ELSE [c |-> [c EXCEPT !.list = MoveToFront(c.list, e)],
                   value |-> c.elems[e].value, ok |-> TRUE]

Remove(c, key) == deleteItem(c, key)

\* Clear without c.list.Init()
Clear_keepsList(c) == [c EXCEPT !.items = EmptyMap]

Clear(c) == Collect([c EXCEPT !.items = EmptyMap, !.list = <<>>])

Cap(c) == c.capacity

-----------------------------------------------------------------------------
(* steps *)

Store(c) ==
    /\ items' = c.items
    /\ list' = c.list
    /\ elems' = c.elems

\* a method of a constructed cache can take the mutex
Callable == err = "nil" /\ mu = "unlocked"

\* NewCache has been called with cap and has not returned yet
Init ==
    /\ cap \in Caps
    /\ err = "unset"
    /\ capacity = 0
    /\ items = EmptyMap
    /\ list = <<>>
    /\ elems = EmptyMap
    /\ mu = "unlocked"
    /\ rpc = "none"
    /\ ticker = FALSE
    /\ elem = Nil
    /\ sending = 0
    /\ returned = 0
    /\ now = StartTime
    /\ pc = [p \in Callers |-> "idle"]
    /\ base = [items |-> EmptyMap, list |-> <<>>, elems |-> EmptyMap]
    /\ hist = <<>>
    /\ panicked = FALSE
    /\ stack = [p \in Callers |-> <<>>]

\* NewCache that rejects only negative capacities
NewCacheErr_negative(n) == IF n < 0 THEN "invalid capacity" ELSE "nil"

\* the error NewCache(n) returns
NewCacheErr(n) == IF n <= 0 THEN "invalid capacity" ELSE "nil"

\* NewCache returns: with an error and no cache, or with the cache and the
\* goroutine deleteByTTL started
NewCacheStep ==
    /\ err = "unset"
    /\ err' = NewCacheErr(cap)
    /\ IF NewCacheErr(cap) = "nil"
       THEN capacity' = cap /\ rpc' = "select" /\ ticker' = TRUE
       ELSE UNCHANGED <<capacity, rpc, ticker>>
    /\ UNCHANGED <<cap, items, list, elems, mu, elem, sending, returned, now, pc, base, hist, panicked, stack>>

\* Cap returns Cap(Cache) and changes nothing
CapStep ==
    /\ err = "nil"
    /\ UNCHANGED vars

\* Add: a panic in the comparison leaves the fields as they are and unwinds
\* through the deferred c.mu.Unlock() to the caller
AddOf(V) ==
    /\ Callable
    /\ \E key \in Keys, value \in V :
        IF updatePanics(Cache, key, value)
        THEN panicked' = TRUE /\ UNCHANGED <<items, list, elems>>
        ELSE Store(Add(Cache, key, value)) /\ UNCHANGED panicked
    /\ UNCHANGED <<cap, err, capacity, mu, rpc, ticker, elem, sending, returned, now, pc, base, hist, stack>>

AddWithTTLOf(V) ==
    /\ Callable
    /\ \E key \in Keys, value \in V, ttl \in TTLs :
        IF updatePanics(Cache, key, value)
        THEN panicked' = TRUE /\ UNCHANGED <<items, list, elems>>
        ELSE Store(AddWithTTL(Cache, key, value, ttl, now)) /\ UNCHANGED panicked
    /\ UNCHANGED <<cap, err, capacity, mu, rpc, ticker, elem, sending, returned, now, pc, base, hist, stack>>

AddStep == AddOf(Values)

AddWithTTLStep == AddWithTTLOf(Values)

GetStep ==
    /\ Callable
    /\ \E key \in Keys :
        Store(Get(Cache, key, now).c)
    /\ UNCHANGED <<cap, err, capacity, mu, rpc, ticker, elem, sending, returned, now, pc, base, hist, panicked, stack>>

RemoveStep ==
    /\ Callable
    /\ \E key \in Keys :
        Store(Remove(Cache, key))
    /\ UNCHANGED <<cap, err, capacity, mu, rpc, ticker, elem, sending, returned, now, pc, base, hist, panicked, stack>>

ClearStep ==
    /\ Callable
    /\ Store(Clear(Cache))
    /\ UNCHANGED <<cap, err, capacity, mu, rpc, ticker, elem, sending, returned, now, pc, base, hist, panicked, stack>>

\* the clock advances
Tick ==
    /\ now < MaxTime
    /\ now' = now + 1
    /\ UNCHANGED <<cap, err, capacity, items, list, elems, mu, rpc, ticker, elem, sending, returned, pc, base, hist, panicked, stack>>

\* deleteByTTL: case <-ticker.C, c.mu.Lock(), elem := c.list.Front()
SweepBegin ==
    /\ rpc = "select"
    /\ mu = "unlocked"
    /\ mu' = "deleteByTTL"
    /\ rpc' = "scan"
    /\ elem' = Front(list)
    /\ UNCHANGED <<cap, err, capacity, items, list, elems, ticker, sending, returned, now, pc, base, hist, panicked, stack>>

\* the body of the loop over the list, for the element e
sweepOne(c, e, t) ==
    IF SweepExpired(c.elems[e].ttl, t) THEN deleteItem(c, c.elems[e].key) ELSE c

\* one iteration of the loop: next := elem.Next() is read before the body
\* can remove elem from the list
RECURSIVE scan(_, _, _)
\* the iterations of the loop from the element e on, one for each clock
\* reading of ts
scan(c, e, ts) ==
    IF e = Nil \/ ts = <<>>
    THEN c
    ELSE scan(sweepOne(c, e, Head(ts)), NextElem(c.list, e), Tail(ts))

\* a whole sweep that reads the clock as t in every iteration
sweep(c, t) == scan(c, Front(c.list), [i \in 1..Len(c.list) |-> t])

SweepNext ==
    /\ rpc = "scan"
    /\ elem # Nil
    /\ Store(sweepOne(Cache, elem, now))
    /\ elem' = NextElem(list, elem)
    /\ UNCHANGED <<cap, err, capacity, mu, rpc, ticker, sending, returned, now, pc, base, hist, panicked, stack>>

\* the loop is over: c.mu.Unlock() and back to the select
SweepEnd ==
    /\ rpc = "scan"
    /\ elem = Nil
    /\ mu' = "unlocked"
    /\ rpc' = "select"
    /\ UNCHANGED <<cap, err, capacity, items, list, elems, ticker, elem, sending, returned, now, pc, base, hist, panicked, stack>>

\* StopTTLRemoval: the caller reaches the send on the unbuffered channel
StopSend ==
    /\ err = "nil"
    /\ sending + returned < MaxStops
    /\ sending' = sending + 1
    /\ UNCHANGED <<cap, err, capacity, items, list, elems, mu, rpc, ticker, elem, returned, now, pc, base, hist, panicked, stack>>

\* deleteByTTL that receives from done and goes on with its loop
SweepDone_goesOn ==
    /\ rpc = "select"
    /\ sending > 0
    /\ sending' = sending - 1
    /\ returned' = returned + 1
    /\ UNCHANGED <<cap, err, capacity, items, list, elems, mu, rpc, ticker, elem, now, pc, base, hist, panicked, stack>>

\* deleteByTTL: case <-c.done receives from one sender, which returns;
\* ticker.Stop() and the goroutine returns
SweepDone ==
    /\ rpc = "select"
    /\ sending > 0
    /\ sending' = sending - 1
    /\ returned' = returned + 1
    /\ ticker' = FALSE
    /\ rpc' = "returned"
    /\ UNCHANGED <<cap, err, capacity, items, list, elems, mu, elem, now, pc, base, hist, panicked, stack>>

Next ==
    \/ NewCacheStep
    \/ CapStep
    \/ AddStep
    \/ AddWithTTLStep
    \/ GetStep
    \/ RemoveStep
    \/ ClearStep
    \/ Tick
    \/ SweepBegin
    \/ SweepNext
    \/ SweepEnd
    \/ StopSend
    \/ SweepDone

Spec == Init /\ [][Next]_vars

\* The program while nobody calls StopTTLRemoval: the constructor, the
\* methods that read or write the cache fields, the clock and the sweep.
\* StopSend and SweepDone write none of capacity, items, list and elems.
CacheNext ==
    \/ NewCacheStep
    \/ CapStep
    \/ AddStep
    \/ AddWithTTLStep
    \/ GetStep
    \/ RemoveStep
    \/ ClearStep
    \/ Tick
    \/ SweepBegin
    \/ SweepNext
    \/ SweepEnd

CacheSpec == Init /\ [][CacheNext]_vars

\* Add and AddWithTTL called with values of any type
AnyAdd == AddOf(AnyValues)

AnyAddWithTTL == AddWithTTLOf(AnyValues)

\* The constructor, the clock and the methods that read or write an entry,
\* with values of comparable and of uncomparable types.
AnyValueNext ==
    \/ NewCacheStep
    \/ AnyAdd
    \/ AnyAddWithTTL
    \/ GetStep
    \/ RemoveStep
    \/ Tick

AnyValueSpec == Init /\ [][AnyValueNext]_vars

\* The callers as goroutines.  Every method but Cap is c.mu.Lock(),
\* defer c.mu.Unlock() and a body: a caller is "idle" outside the methods,
\* at "lock" while it waits in c.mu.Lock(), at "body" once it holds the
\* mutex and at "unlock" when the body is done and the deferred Unlock is
\* left; the arguments of the call are read in the body.
\* base is the cache as it was when the mutex was last free with nobody
\* between Lock and Unlock, and hist keeps the bodies and sweeps begun since,
\* in the order they began, with the clock readings they made and what they
\* returned.

\* the body of the method of call o, reading the clock as t
Apply(c, o, t) ==
    CASE o.name = "Add" -> [c |-> Add(c, o.key, o.value), ret |-> NoRet]
      [] o.name = "AddWithTTL" -> [c |-> AddWithTTL(c, o.key, o.value, o.ttl, t), ret |-> NoRet]
      [] o.name = "Get" -> [c |-> Get(c, o.key, t).c,
                            ret |-> <<Get(c, o.key, t).value, Get(c, o.key, t).ok>>]
      [] o.name = "Remove" -> [c |-> Remove(c, o.key), ret |-> NoRet]
      [] o.name = "Clear" -> [c |-> Clear(c), ret |-> NoRet]

\* the caller p is between c.mu.Lock() and the deferred c.mu.Unlock()
InCS(p) == pc[p] \in {"body", "unlock"}

\* the place in h of the sweep that began last
LastSweep(h) ==
    CHOOSE i \in 1..Len(h) :
        h[i].who = "deleteByTTL" /\ \A j \in (i + 1)..Len(h) : h[j].who # "deleteByTTL"

\* the mutex is given back: if nobody else is between Lock and Unlock the
\* cache is at rest, base is the cache and hist starts again
Rest(others) ==
    IF others
    THEN UNCHANGED <<base, hist>>
    ELSE /\ base' = [items |-> items, list |-> list, elems |-> elems]
         /\ hist' = <<>>

\* a caller enters a method
Call(p) ==
    /\ err = "nil"
    /\ pc[p] = "idle"
    /\ pc' = [pc EXCEPT ![p] = "lock"]
    /\ UNCHANGED <<cap, err, capacity, items, list, elems, mu, rpc, ticker, elem,
                   sending, returned, now, base, hist, panicked, stack>>

\* c.mu.Lock() returns
Lock(p) ==
    /\ pc[p] = "lock"
    /\ mu = "unlocked"
    /\ mu' = p
    /\ pc' = [pc EXCEPT ![p] = "body"]
    /\ UNCHANGED <<cap, err, capacity, items, list, elems, rpc, ticker, elem,
                   sending, returned, now, base, hist, panicked, stack>>

\* the body of the method the caller is in, up to its return statement
Body(p) ==
    /\ pc[p] = "body"
    /\ \E o \in Calls :
        /\ Store(Apply(Cache, o, now).c)
        /\ hist' = Append(hist, [who |-> p, call |-> o, ts |-> <<now>>,
                                 ret |-> Apply(Cache, o, now).ret])
    /\ pc' = [pc EXCEPT ![p] = "unlock"]
    /\ UNCHANGED <<cap, err, capacity, mu, rpc, ticker, elem, sending, returned, now, base, panicked, stack>>

\* the deferred c.mu.Unlock(), and the method returns
Unlock(p) ==
    /\ pc[p] = "unlock"
    /\ mu' = "unlocked"
    /\ pc' = [pc EXCEPT ![p] = "idle"]
    /\ Rest(rpc = "scan" \/ \E q \in Callers \ {p} : InCS(q))
    /\ UNCHANGED <<cap, err, capacity, items, list, elems, rpc, ticker, elem,
                   sending, returned, now, panicked, stack>>

\* SweepBegin that does not take the mutex
ConcSweepBegin_noLock ==
    /\ rpc = "select"
    /\ rpc' = "scan"
    /\ elem' = Front(list)
    /\ hist' = Append(hist, [who |-> "deleteByTTL", call |-> SweepCall, ts |-> <<>>, ret |-> NoRet])
    /\ UNCHANGED <<cap, err, capacity, items, list, elems, mu, ticker, sending, returned, now, pc, base, panicked, stack>>

\* SweepBegin, entered in hist
ConcSweepBegin ==
    /\ rpc = "select"
    /\ mu = "unlocked"
    /\ mu' = "deleteByTTL"
    /\ rpc' = "scan"
    /\ elem' = Front(list)
    /\ hist' = Append(hist, [who |-> "deleteByTTL", call |-> SweepCall, ts |-> <<>>, ret |-> NoRet])
    /\ UNCHANGED <<cap, err, capacity, items, list, elems, ticker, sending, returned, now, pc, base, panicked, stack>>

\* the iteration of the draft in src/unnamed/part_001, which gives the
\* mutex up around the deletion
ConcSweepNext_unlocks ==
    /\ rpc = "scan"
    /\ elem # Nil
    /\ elem \in DOMAIN elems
    /\ Store(sweepOne(Cache, elem, now))
    /\ elem' = NextElem(list, elem)
    /\ hist' = [hist EXCEPT ![LastSweep(hist)].ts = Append(@, now)]
    /\ mu' = IF SweepExpired(elems[elem].ttl, now) THEN "unlocked" ELSE mu
    /\ UNCHANGED <<cap, err, capacity, rpc, ticker, sending, returned, now, pc, base, panicked, stack>>

\* SweepNext, its clock reading entered in hist
ConcSweepNext ==
    /\ rpc = "scan"
    /\ elem # Nil
    /\ Store(sweepOne(Cache, elem, now))
    /\ elem' = NextElem(list, elem)
    /\ hist' = [hist EXCEPT ![LastSweep(hist)].ts = Append(@, now)]
    /\ UNCHANGED <<cap, err, capacity, mu, rpc, ticker, sending, returned, now, pc, base, panicked, stack>>

\* SweepEnd, the mutex given back
ConcSweepEnd ==
    /\ rpc = "scan"
    /\ elem = Nil
    /\ mu' = "unlocked"
    /\ rpc' = "select"
    /\ Rest(\E q \in Callers : InCS(q))
    /\ UNCHANGED <<cap, err, capacity, items, list, elems, ticker, elem, sending, returned, now, pc, panicked, stack>>

ConcNext ==
    \/ NewCacheStep
    \/ CapStep
    \/ \E p \in Callers : Call(p)
    \/ \E p \in Callers : Lock(p)
    \/ \E p \in Callers : Body(p)
    \/ \E p \in Callers : Unlock(p)
    \/ Tick
    \/ ConcSweepBegin
    \/ ConcSweepNext
    \/ ConcSweepEnd

ConcSpec == Init /\ [][ConcNext]_vars

-----------------------------------------------------------------------------
(* The draft of the cache in src/unnamed/part_001 (stopped with Done).     *)
(* Its Add, AddWithTTL, Clear and Remove are the ones above (deleteLRU is  *)
(* called deleteCacheItem there).  Its Get differs: it tests the ttl       *)
(* without IsZero and deletes through the exported Remove, which locks the *)
(* mutex itself.  stack holds the frames of the methods a caller is        *)
(* inside, pc its position in the innermost one.  The goroutine            *)
(* deleteByTTL of the draft takes no step here: it sleeps until the first  *)
(* tick of its one-minute ticker, and it needs the mutex to do anything.   *)

\* the frame of a call: its arguments and its results (value, ok)
Frame(o) == [call |-> o, value |-> NoValue, ok |-> FALSE]

\* the innermost frame of caller p
Top(p) == stack[p][Len(stack[p])]

\* the test the draft's Get makes before it deletes an entry
DraftExpired(ttl, t) == Before(ttl, t)

\* the body of the draft's Get up to its return statement or to its call of
\* c.Remove: the cache, the results and whether Remove is called
DraftGet(c, key, t) ==
    IF key \notin DOMAIN c.items
    THEN [c |-> c, value |-> NoValue, ok |-> FALSE, remove |-> FALSE]
    ELSE LET e == c.items[key]
         IN  IF DraftExpired(c.elems[e].ttl, t)
             THEN [c |-> c, value |-> NoValue, ok |-> FALSE, remove |-> TRUE]
             ELSE [c |-> [c EXCEPT !.list = MoveToFront(c.list, e)],
                   value |-> c.elems[e].value, ok |-> TRUE, remove |-> FALSE]

\* a caller enters a method of the draft
DraftCall(p) ==
    /\ err = "nil"
    /\ pc[p] = "idle"
    /\ \E o \in Calls : stack' = [stack EXCEPT ![p] = <<Frame(o)>>]
    /\ pc' = [pc EXCEPT ![p] = "lock"]
    /\ UNCHANGED <<cap, err, capacity, items, list, elems, mu, rpc, ticker, elem,
                   sending, returned, now, base, hist, panicked>>

\* c.mu.Lock() of the innermost method returns
DraftLock(p) ==
    /\ pc[p] = "lock"
    /\ mu = "unlocked"
    /\ mu' = p
    /\ pc' = [pc EXCEPT ![p] = "body"]
    /\ UNCHANGED <<cap, err, capacity, items, list, elems, rpc, ticker, elem,
                   sending, returned, now, base, hist, panicked, stack>>

\* the body of the innermost method: Get runs to its return statement or
\* calls c.Remove with the mutex held; the other methods run to their end
DraftBody(p) ==
    /\ pc[p] = "body"
    /\ LET o == Top(p).call
           r == DraftGet(Cache, o.key, now)
           n == Len(stack[p])
       IN  IF o.name # "Get"
           THEN /\ Store(Apply(Cache, o, now).c)
                /\ pc' = [pc EXCEPT ![p] = "unlock"]
                /\ UNCHANGED stack
           ELSE IF r.remove
           THEN /\ stack' = [stack EXCEPT ![p] =
                        Append(@, Frame([name |-> "Remove", key |-> elems[items[o.key]].key,
                                         value |-> NoValue, ttl |-> 0]))]
                /\ pc' = [pc EXCEPT ![p] = "lock"]
                /\ UNCHANGED <<items, list, elems>>
           ELSE /\ Store(r.c)
                /\ stack' = [stack EXCEPT ![p][n].value = r.value, ![p][n].ok = r.ok]
                /\ pc' = [pc EXCEPT ![p] = "unlock"]
    /\ UNCHANGED <<cap, err, capacity, mu, rpc, ticker, elem, sending, returned, now, base, hist, panicked>>

\* the deferred c.mu.Unlock() of the innermost method, and the method
\* returns: to the caller, or into Get at its return statement.  Unlock of
\* a mutex that is not locked is a fatal error of the run time.
DraftUnlock(p) ==
    /\ pc[p] = "unlock"
    /\ mu' = "unlocked"
    /\ panicked' = (panicked \/ mu = "unlocked")
    /\ stack' = [stack EXCEPT ![p] = SubSeq(@, 1, Len(@) - 1)]
    /\ pc' = [pc EXCEPT ![p] = IF Len(stack[p]) > 1 THEN "unlock" ELSE "idle"]
    /\ UNCHANGED <<cap, err, capacity, items, list, elems, rpc, ticker, elem,
                   sending, returned, now, base, hist>>

DraftNext ==
    \/ NewCacheStep
    \/ CapStep
    \/ \E p \in Callers : DraftCall(p)
    \/ \E p \in Callers : DraftLock(p)
    \/ \E p \in Callers : DraftBody(p)
    \/ \E p \in Callers : DraftUnlock(p)
    \/ Tick

DraftSpec == Init /\ [][DraftNext]_vars

\* The callers of the fair specification store one value: expiry does not
\* depend on the value.
FairValues == {"x"}

FairAdd == AddOf(FairValues)

FairAddWithTTL == AddWithTTLOf(FairValues)

FairNext ==
    \/ NewCacheStep
    \/ CapStep
    \/ FairAdd
    \/ FairAddWithTTL
    \/ GetStep
    \/ RemoveStep
    \/ ClearStep
    \/ Tick
    \/ SweepBegin
    \/ SweepNext
    \/ SweepEnd
    \/ StopSend
    \/ SweepDone

\* The ticker fires again and again, sync.Mutex hands the lock to a waiting
\* goroutine, and the loop over the list runs on once it has the lock.
FairSpec ==
    /\ Init
    /\ [][FairNext]_vars
    /\ WF_vars(SweepBegin)
    /\ WF_vars(SweepNext)
    /\ WF_vars(SweepEnd)

-----------------------------------------------------------------------------
(* views of the state used by the properties *)

Present(k) == k \in DOMAIN items

Entry(k) == elems[items[k]]

ValueOf(k) == Entry(k).value

ExpiryOf(k) == Entry(k).ttl

\* the keys of the list l over the heap h, Front first
KeyOrder(l, h) == [i \in 1..Len(l) |-> h[l[i]].key]

Order(c) == KeyOrder(c.list, c.elems)

BackKey == elems[Back(list)].key

\* q without its last element
DropLast(q) == SubSeq(q, 1, Len(q) - 1)

Without(q, k) == SelectSeq(q, LAMBDA x : x # k)

\* the elements of q that are in S, in the order of q
Only(q, S) == SelectSeq(q, LAMBDA x : x \in S)

TypeOK ==
    /\ cap \in Caps
    /\ err \in {"unset", "nil", "invalid capacity"}
    /\ capacity \in 0..MaxCap
    /\ DOMAIN items \subseteq Keys
    /\ Range(items) \subseteq ElemIds
    /\ Range(list) \subseteq ElemIds
    /\ DOMAIN elems \subseteq ElemIds
    /\ \A e \in DOMAIN elems :
        elems[e].key \in Keys /\ elems[e].value \in Values \cup AnyValues /\ elems[e].ttl \in 0..(MaxTime + 1)
    /\ mu \in {"unlocked", "deleteByTTL"} \cup Callers
    /\ rpc \in {"none", "select", "scan", "returned"}
    /\ ticker \in BOOLEAN
    /\ elem \in ElemIds \cup {Nil}
    /\ sending \in 0..MaxStops
    /\ returned \in 0..MaxStops
    /\ now \in StartTime..MaxTime
    /\ pc \in [Callers -> {"idle", "lock", "body", "unlock"}]
    /\ DOMAIN base = {"items", "list", "elems"}
    /\ panicked \in BOOLEAN
    /\ DOMAIN stack = Callers
    /\ \A i \in 1..Len(hist) :
        /\ hist[i].who \in Callers \cup {"deleteByTTL"}
        /\ hist[i].call \in Calls \cup {SweepCall}
        /\ \A j \in 1..Len(hist[i].ts) : hist[i].ts[j] \in StartTime..MaxTime


-----------------------------------------------------------------------------
(* Properties *)

\* the cache values Add and AddWithTTL can make of the state for key k
Stored(k) ==
    {Add(Cache, k, v) : v \in Values}
        \cup {AddWithTTL(Cache, k, v, ttl, now) : v \in Values, ttl \in TTLs}

\* C1: Get(k) on the cache that Add(k, v) leaves behind returns (v, true),
\* at the time of the Add or any time later, whether k was new or was stored
\* before with another value.
C1_GetAfterAdd ==
    Callable =>
        \A k \in Keys, v \in Values, t \in now..MaxTime :
            LET r == Get(Add(Cache, k, v), k, t)
            IN  r.ok /\ r.value = v

C1_Witness ==
    /\ Callable
    /\ Len(list) = capacity
    /\ capacity >= 2
    /\ \E k \in DOMAIN items, v \in Values :
        /\ ValueOf(k) # v
        /\ ~IsZero(ExpiryOf(k))
        /\ Get(Add(Cache, k, v), k, now).value = v
        /\ Get(Add(Cache, k, v), k, now).ok

\* C2: an Add or AddWithTTL of a key that is not stored evicts exactly the
\* element at the back of the list when the cache is full and nothing when
\* it is not; every other entry is kept as it was, the new key is at the front.
C2_EvictsBackOnly ==
    Callable =>
        \A k \in Keys \ DOMAIN items : \A c2 \in Stored(k) :
            LET full == Len(list) = capacity
                kept == IF full THEN DOMAIN items \ {BackKey} ELSE DOMAIN items
                order == IF full THEN DropLast(Order(Cache)) ELSE Order(Cache)
            IN  /\ DOMAIN c2.items = kept \cup {k}
                /\ \A j \in kept : c2.elems[c2.items[j]] = Entry(j)
                /\ Order(c2) = <<k>> \o order

C2_Witness ==
    /\ Callable
    /\ Len(list) = capacity
    /\ capacity >= 2
    /\ \E k \in Keys \ DOMAIN items, v \in Values :
        LET c2 == Add(Cache, k, v)
        IN  /\ BackKey \notin DOMAIN c2.items
            /\ DOMAIN c2.items = (DOMAIN items \ {BackKey}) \cup {k}
            /\ Len(c2.list) = capacity

\* a touch of k made c2 of the cache: k is at the front, the others keep
\* their order, and at most the back one is gone
TouchedFirst(k, c2) ==
    LET rest == Without(Order(Cache), k)
    IN  \/ Order(c2) = <<k>> \o rest
        \/ /\ ~Present(k)
           /\ Len(list) >= capacity
           /\ Order(c2) = <<k>> \o DropLast(rest)

\* c2 keeps the keys it has in the order they have in the list
OrderKept(c2) == Order(c2) = Only(Order(Cache), Range(Order(c2)))

\* C3: the list is ordered by last touch.  A touch (Add, AddWithTTL, a
\* successful Get) puts its key at the front and keeps the order of the
\* others; every other operation (a Get that fails, Remove, Clear, an
\* iteration of the sweep) keeps the order of the keys it leaves in the list.
C3_RecencyOrder ==
    /\ Callable =>
        \A k \in Keys :
            /\ \A c2 \in Stored(k) : TouchedFirst(k, c2)
            /\ IF Get(Cache, k, now).ok
               THEN TouchedFirst(k, Get(Cache, k, now).c)
               ELSE OrderKept(Get(Cache, k, now).c)
            /\ OrderKept(Remove(Cache, k))
            /\ OrderKept(Clear(Cache))
    /\ (rpc = "scan" /\ elem # Nil) => OrderKept(sweepOne(Cache, elem, now))

C3_Witness ==
    /\ Callable
    /\ Len(list) = capacity
    /\ capacity >= 2
    /\ ~IsZero(ExpiryOf(BackKey))
    /\ LET r == Get(Cache, BackKey, now)
       IN  /\ r.ok
           /\ Order(r.c)[1] = BackKey
           /\ \E k \in Keys \ DOMAIN items, v \in Values :
                BackKey \in DOMAIN Add(r.c, k, v).items

\* C4: the number of stored entries never exceeds the capacity.
C4_SizeAtMostCapacity ==
    /\ Len(list) <= capacity
    /\ Cardinality(DOMAIN items) <= capacity

C4_Witness ==
    /\ capacity >= 2
    /\ Len(list) = capacity
    /\ Cardinality(DOMAIN items) = capacity
    /\ Callable
    /\ \E k \in Keys \ DOMAIN items, v \in Values : Len(Add(Cache, k, v).list) = capacity


\* the sweep is about to examine the element elem
Sweeping == rpc = "scan" /\ elem # Nil

\* C5: an iteration of the sweep deletes an entry only if its expiry is set
\* and not after the current time; entries without expiry and entries whose
\* deadline lies ahead stay.
C5_SweepDeletesOnlyExpired ==
    Sweeping =>
        \A k \in DOMAIN items \ DOMAIN sweepOne(Cache, elem, now).items :
            ~IsZero(ExpiryOf(k)) /\ ExpiryOf(k) <= now

\* Get(k) deletes the entry of k from map and list and returns (nil, false)
GetDeletes(k) ==
    LET r == Get(Cache, k, now)
    IN  /\ ~r.ok
        /\ r.value = NoValue
        /\ k \notin DOMAIN r.c.items
        /\ items[k] \notin Range(r.c.list)
        /\ \A j \in DOMAIN items \ {k} : j \in DOMAIN r.c.items

\* Get(k) returns the value of k and keeps its entry
GetReturns(k) ==
    LET r == Get(Cache, k, now)
    IN  /\ r.ok
        /\ r.value = ValueOf(k)
        /\ k \in DOMAIN r.c.items
        /\ r.c.elems[r.c.items[k]] = Entry(k)

\* C6: Get on a stored key deletes the entry and returns
\* (nil, false) iff its expiry is set and <= now.
C6_ExpiredIffNotAfterNow ==
    Callable =>
        \A k \in DOMAIN items :
            IF ~IsZero(ExpiryOf(k)) /\ ExpiryOf(k) <= now
            THEN GetDeletes(k)
            ELSE GetReturns(k)

\* C7: an entry stored with a deadline is there, with its value, while the
\* clock is before the deadline: an iteration of the sweep keeps it and Get
\* returns its value and keeps it; after the deadline Get returns (nil, false).
\* (Tick changes no entry; only Remove, Clear, Add and AddWithTTL are left to
\* remove or overwrite it.)
C7_LiveUntilDeadline ==
    \A k \in DOMAIN items :
        ~IsZero(ExpiryOf(k)) =>
            /\ (Sweeping /\ now < ExpiryOf(k)) =>
                LET c2 == sweepOne(Cache, elem, now)
                IN  k \in DOMAIN c2.items /\ c2.elems[c2.items[k]] = Entry(k)
            /\ (Callable /\ now < ExpiryOf(k)) => GetReturns(k)
            /\ (Callable /\ now > ExpiryOf(k)) =>
                (~Get(Cache, k, now).ok /\ Get(Cache, k, now).value = NoValue)

C7_Witness ==
    /\ Sweeping
    /\ now > StartTime
    /\ now < elems[elem].ttl
    /\ elems[elem].key \in DOMAIN sweepOne(Cache, elem, now).items
    /\ Get(sweepOne(Cache, elem, now), elems[elem].key, now).ok
    /\ ~Get(sweepOne(Cache, elem, now), elems[elem].key, elems[elem].ttl + 1).ok

\* the deadline of k has passed
Overdue(k) == Present(k) /\ ~IsZero(ExpiryOf(k)) /\ ExpiryOf(k) < now

\* neither the map nor the list holds an overdue entry of k
Purged(k) ==
    /\ ~Overdue(k)
    /\ \A e \in Range(list) :
        elems[e].key = k => (IsZero(elems[e].ttl) \/ elems[e].ttl >= now)

\* C8: while the goroutine is not stopped, every entry whose deadline has
\* passed is eventually removed from the map and the list, with no Get needed.
C8_OverdueEventuallyPurged ==
    \A k \in Keys : Overdue(k) ~> (Purged(k) \/ rpc = "returned")

C8_Witness ==
    /\ Sweeping
    /\ Overdue(elems[elem].key)
    /\ elems[elem].key \notin DOMAIN sweepOne(Cache, elem, now).items
    /\ elem \notin Range(sweepOne(Cache, elem, now).list)

\* C9: no StopTTLRemoval call is left in its send once the goroutine that
\* receives from done has returned, so every call returns.
C9_StopNeverHangs == ~(sending > 0 /\ rpc = "returned")

\* C10: once NewCache(cap) has returned, there is the error "invalid capacity",
\* no cache and no goroutine if cap <= 0, and no error and a cache whose Cap()
\* is cap if cap > 0, whatever has been done with the cache since.
C10_Capacity ==
    err # "unset" =>
        IF cap <= 0
        THEN err = "invalid capacity" /\ capacity = 0 /\ rpc = "none" /\ ~ticker
        ELSE err = "nil" /\ Cap(Cache) = cap /\ rpc # "none"

C10_Witness ==
    /\ err = "invalid capacity"
    /\ cap = 0
    /\ capacity = 0
    /\ rpc = "none"
    /\ now > StartTime

\* the entry of key j is in c2 as it is in the cache
SameEntry(c2, j) == j \in DOMAIN c2.items /\ c2.elems[c2.items[j]] = Entry(j)

\* C11: Remove(k) of a stored key takes exactly k out of the map and its
\* element out of the list, keeps every other entry and the order of the
\* others, and a Get(k) that follows returns (nil, false) and changes nothing;
\* Remove(k) of a key that is not stored leaves the cache as it is.
C11_RemoveExact ==
    Callable =>
        \A k \in Keys :
            LET c2 == Remove(Cache, k)
            IN  IF Present(k)
                THEN /\ DOMAIN c2.items = DOMAIN items \ {k}
                     /\ items[k] \notin Range(c2.list)
                     /\ \A j \in DOMAIN items \ {k} : SameEntry(c2, j)
                     /\ Order(c2) = Without(Order(Cache), k)
                     /\ \A t \in now..MaxTime :
                            LET r == Get(c2, k, t)
                            IN  ~r.ok /\ r.value = NoValue /\ r.c = c2
                ELSE c2 = Cache

C11_Witness ==
    /\ Callable
    /\ capacity >= 2
    /\ Len(list) = capacity
    /\ \E k \in DOMAIN items, j \in Keys \ DOMAIN items :
        /\ k # BackKey
        /\ ~IsZero(ExpiryOf(k))
        /\ DOMAIN Remove(Cache, k).items = DOMAIN items \ {k}
        /\ Len(Remove(Cache, k).list) = capacity - 1
        /\ ~Get(Remove(Cache, k), k, now).ok
        /\ Remove(Cache, j) = Cache

RECURSIVE AddAll(_, _, _)
\* Add(q[1], v), Add(q[2], v), ... one after the other
AddAll(c, q, v) ==
    IF q = <<>> THEN c ELSE AddAll(Add(c, Head(q), v), Tail(q), v)

\* the sequences of n different keys
KeySeqs ==
    [n \in 0..Cardinality(Keys) |->
        {q \in [1..n -> Keys] : \A i, j \in 1..n : i # j => q[i] # q[j]}]

\* the largest number of different keys a cache of capacity n can be given
Room(n) == IF n <= Cardinality(Keys) THEN n ELSE Cardinality(Keys)

\* C12: Clear leaves the map and the list empty and the capacity as it was;
\* after it Get returns (nil, false) for every key, and capacity different
\* keys can be added one after the other with none of them evicted.
C12_ClearEmpties ==
    Callable =>
        LET c2 == Clear(Cache)
        IN  /\ DOMAIN c2.items = {}
            /\ c2.list = <<>>
            /\ Cap(c2) = Cap(Cache)
            /\ \A k \in Keys :
                LET r == Get(c2, k, now)
                IN  ~r.ok /\ r.value = NoValue
            /\ \A q \in KeySeqs[Room(capacity)], v \in Values :
                LET c3 == AddAll(c2, q, v)
                IN  /\ DOMAIN c3.items = Range(q)
                    /\ Len(c3.list) = Len(q)

C12_Witness ==
    /\ Callable
    /\ capacity >= 2
    /\ Len(list) = capacity
    /\ \E k \in DOMAIN items : ~IsZero(ExpiryOf(k))
    /\ Clear(Cache).list = <<>>
    /\ DOMAIN Clear(Cache).items = {}
    /\ \E q \in KeySeqs[capacity] :
        /\ Range(q) # DOMAIN items
        /\ DOMAIN AddAll(Clear(Cache), q, "x").items = Range(q)

\* C13: Add or AddWithTTL of a key that is stored evicts nothing: the keys
\* of the map and of the list are the same before and after, the list has the
\* same length, also when the cache is full.
C13_UpdateNeverEvicts ==
    Callable =>
        \A k \in DOMAIN items : \A c2 \in Stored(k) :
            /\ DOMAIN c2.items = DOMAIN items
            /\ Len(c2.list) = Len(list)
            /\ Range(Order(c2)) = Range(Order(Cache))

C13_Witness ==
    /\ Callable
    /\ capacity >= 2
    /\ Len(list) = capacity
    /\ \E k \in DOMAIN items :
        /\ k # BackKey
        /\ DOMAIN Add(Cache, k, "y").items = DOMAIN items
        /\ DOMAIN AddWithTTL(Cache, k, "y", 1, now).items = DOMAIN items
        /\ BackKey \in DOMAIN Add(Cache, k, "y").items

\* C14: Add(k, v) of a key stored with an expiry sets the expiry to the zero
\* time, the value to v and puts the element at the front, and the entry is
\* permanent from then on: a Get(k) on the cache Add leaves behind returns
\* (v, true) at every later time, the old deadline passed or not, also when
\* a sweep of deleteByTTL has run in between.
C14_AddClearsExpiry ==
    Callable =>
        \A k \in DOMAIN items :
            ~IsZero(ExpiryOf(k)) =>
                \A v \in Values :
                    LET c2 == Add(Cache, k, v)
                        e == c2.items[k]
                    IN  /\ c2.elems[e] = [key |-> k, value |-> v, ttl |-> 0]
                        /\ Front(c2.list) = e
                        /\ \A t \in now..(MaxTime + 2) :
                            LET r == Get(c2, k, t)
                            IN  r.ok /\ r.value = v
                        /\ \A t \in now..MaxTime :
                            LET r == Get(sweep(c2, t), k, t)
                            IN  r.ok /\ r.value = v

\* the durations of TTLs that are not positive
NonPositive == {ttl \in TTLs : ttl <= 0}

\* Get(k) at time t on c2 returns (nil, false) and deletes k, and so does
\* a sweep at time t
GoneAt(c2, k, t) ==
    LET r == Get(c2, k, t)
        s == sweep(c2, t)
    IN  /\ ~r.ok
        /\ r.value = NoValue
        /\ k \notin DOMAIN r.c.items
        /\ k \notin DOMAIN s.items

\* C15: after AddWithTTL(k, v, ttl) with ttl <= 0 the next Get(k),
\* also one at the same clock reading, returns (nil, false) and deletes k,
\* and the next sweep deletes it.
C15_NonPositiveGoneAtOnce ==
    Callable =>
        \A k \in Keys, v \in Values, ttl \in NonPositive :
            GoneAt(AddWithTTL(Cache, k, v, ttl, now), k, now)

\* map and list of c hold the same keys, each once, and the map leads to
\* the element of its key
LockStep(c) ==
    /\ DOMAIN c.items = {c.elems[e].key : e \in Range(c.list)}
    /\ \A i, j \in 1..Len(c.list) :
        i # j => (c.list[i] # c.list[j] /\ c.elems[c.list[i]].key # c.elems[c.list[j]].key)
    /\ \A k \in DOMAIN c.items :
        c.items[k] \in Range(c.list) /\ c.elems[c.items[k]].key = k
    /\ Len(c.list) = Cardinality(DOMAIN c.items)

\* C16: after every operation and every iteration of the sweep the map and
\* the list hold the same keys, each key once in each, items[k] is the list
\* element whose item has the key k, and the list is as long as the map.
C16_IndexAndListInLockStep == LockStep(Cache)

C16_Witness ==
    /\ Sweeping
    /\ capacity >= 2
    /\ Len(list) = capacity
    /\ elem = Back(list)
    /\ Overdue(elems[elem].key)
    /\ Len(sweepOne(Cache, elem, now).list) = capacity - 1
    /\ LockStep(sweepOne(Cache, elem, now))

\* the goroutine deleteByTTL is in its loop
Running == rpc \in {"select", "scan"}

\* the goroutine deleteByTTL has returned
Stopped == rpc = "returned"

\* C19: the goroutine of a constructed cache is Running, with the ticker
\* armed and no StopTTLRemoval call returned, or Stopped, with the ticker
\* stopped; once a StopTTLRemoval call has returned it is Stopped in every
\* state that follows, with no sweep under way, none to begin and the mutex
\* not held by it.
C19_StoppedIsTerminal ==
    /\ err = "nil" => (Running \/ Stopped)
    /\ Running => (ticker /\ returned = 0)
    /\ Stopped => (~ticker /\ returned > 0 /\ ~Sweeping /\ mu # "deleteByTTL")
    /\ returned > 0 => Stopped

C19_Witness ==
    /\ Stopped
    /\ returned = 1
    /\ mu = "unlocked"
    /\ now = MaxTime
    /\ \E k \in DOMAIN items : Overdue(k) /\ ExpiryOf(k) + 1 < now
    /\ \E k \in DOMAIN items : IsZero(ExpiryOf(k))

\* C20: AddWithTTL(k, v, ttl) of a stored key, with or without an expiry,
\* sets its value to v and its expiry to now+ttl, puts it at the front of
\* the list and leaves the size and every other entry as they were.
C20_AddWithTTLOnStoredKey ==
    Callable =>
        \A k \in DOMAIN items, v \in Values, ttl \in TTLs :
            LET c2 == AddWithTTL(Cache, k, v, ttl, now)
            IN  /\ DOMAIN c2.items = DOMAIN items
                /\ c2.elems[c2.items[k]] = [key |-> k, value |-> v, ttl |-> now + ttl]
                /\ Order(c2) = <<k>> \o Without(Order(Cache), k)
                /\ Len(c2.list) = Len(list)
                /\ \A j \in DOMAIN items \ {k} : SameEntry(c2, j)

C20_Witness ==
    /\ Callable
    /\ capacity >= 2
    /\ Len(list) = capacity
    /\ IsZero(ExpiryOf(BackKey))
    /\ ValueOf(BackKey) = "x"
    /\ LET c2 == AddWithTTL(Cache, BackKey, "y", 1, now)
       IN  /\ c2.elems[c2.items[BackKey]].ttl = now + 1
           /\ c2.elems[c2.items[BackKey]].value = "y"
           /\ Order(c2)[1] = BackKey
           /\ Len(c2.list) = capacity

\* C17: at most one of the callers and the sweep is inside its critical
\* section; who is inside holds the mutex, the goroutine deleteByTTL from the
\* first to the last iteration of its loop, so no body of a method runs
\* between two iterations of a sweep.
C17_MutualExclusion ==
    /\ Cardinality({p \in Callers : InCS(p)}) + (IF rpc = "scan" THEN 1 ELSE 0) <= 1
    /\ \A p \in Callers : InCS(p) => mu = p
    /\ rpc = "scan" => mu = "deleteByTTL"

C17_Witness ==
    /\ Sweeping
    /\ mu = "deleteByTTL"
    /\ Len(list) >= 2
    /\ elem = Back(list)
    /\ Len(hist[1].ts) = 1
    /\ \A p \in Callers : pc[p] = "lock"

\* the cache at rest
AtRest == [capacity |-> capacity, items |-> base.items, list |-> base.list, elems |-> base.elems]

RECURSIVE Replay(_, _)
\* the entries of h run one at a time on c, each with the clock readings
\* it made: the cache at the end, and whether every entry returned what h
\* says it returned
Replay(c, h) ==
    IF h = <<>>
    THEN [c |-> c, same |-> TRUE]
    ELSE LET x == Head(h)
             r == IF x.who = "deleteByTTL"
                  THEN [c |-> scan(c, Front(c.list), x.ts), ret |-> NoRet]
                  ELSE Apply(c, x.call, x.ts[1])
             rest == Replay(r.c, Tail(h))
         IN  [c |-> rest.c, same |-> (r.ret = x.ret /\ rest.same)]

\* C18: whatever the interleaving of the callers and the goroutine
\* deleteByTTL, the bodies and sweeps begun since the cache was last at
\* rest, run one at a time from the cache at rest and in the order they
\* began, return what the calls returned and end in the cache as it is.
\* The cache at rest is itself the end of such a run, so the whole
\* execution equals the calls and sweeps run one at a time in the order they
\* took the mutex.  (A caller makes its next call after the last one
\* returned, so that order agrees with its program order.)
C18_Linearizable ==
    LET r == Replay(AtRest, hist)
    IN  r.same /\ r.c = Cache

C18_Witness ==
    /\ rpc = "scan"
    /\ elem = Nil
    /\ \A p \in Callers : pc[p] = "lock"
    /\ Len(base.list) = 2
    /\ list = <<>>
    /\ Len(hist) = 1
    /\ Len(hist[1].ts) = 2
    /\ hist[1].ts[1] < hist[1].ts[2]
    /\ Replay(AtRest, hist).same
    /\ Replay(AtRest, hist).c = Cache

-----------------------------------------------------------------------------
\* C21: Add and AddWithTTL have no failure path for any value: no call ends
\* in a panic, and for every key and every value, of a comparable type or
\* not, the call can be made on the cache as it is without one.
C21_AddNeverFails ==
    /\ ~panicked
    /\ Callable => \A k \in Keys, v \in AnyValues : ~updatePanics(Cache, k, v)

-----------------------------------------------------------------------------
\* C22: Get changes nothing but recency and expired entries.  Get(k) of a
\* key that is not stored leaves the cache as it is; a Get(k) that succeeds
\* keeps the map and every item (key set, values, expiries) and moves k to
\* the front with the others in the order they had; a Get(k) that finds k
\* expired takes k and its element out and keeps every other entry and the
\* order of the others.  The capacity is never touched.
C22_GetFrame ==
    Callable =>
        \A k \in Keys :
            LET r == Get(Cache, k, now)
                c2 == r.c
            IN  /\ c2.capacity = capacity
                /\ IF ~Present(k)
                   THEN ~r.ok /\ r.value = NoValue /\ c2 = Cache
                   ELSE IF r.ok
                   THEN /\ r.value = ValueOf(k)
                        /\ c2.items = items
                        /\ c2.elems = elems
                        /\ Order(c2) = <<k>> \o Without(Order(Cache), k)
                   ELSE /\ r.value = NoValue
                        /\ GetExpired(ExpiryOf(k), now)
                        /\ DOMAIN c2.items = DOMAIN items \ {k}
                        /\ items[k] \notin Range(c2.list)
                        /\ \A j \in DOMAIN items \ {k} : SameEntry(c2, j)
                        /\ Order(c2) = Without(Order(Cache), k)

\* one key is not stored, one is stored behind the front and read with
\* success, and the one at the front has expired and is deleted by Get
C22_Witness ==
    /\ Callable
    /\ Len(list) = 2
    /\ \E k \in Keys \ DOMAIN items : Get(Cache, k, now).c = Cache
    /\ LET m == elems[Front(list)].key
           j == BackKey
       IN  /\ Get(Cache, j, now).ok
           /\ ~IsZero(ExpiryOf(j))
           /\ Order(Get(Cache, j, now).c) = <<j, m>>
           /\ ~Get(Cache, m, now).ok
           /\ Order(Get(Cache, m, now).c) = <<j>>

-----------------------------------------------------------------------------
\* C23: in the draft of src/unnamed/part_001 every Get returns to its
\* caller with the mutex released.  No caller waits in c.mu.Lock() for the
\* mutex it holds itself; a Get of a key stored by Add (no deadline) runs to
\* its return statement with (v, true); and a Get that has come to its
\* return statement is inside no other method.
C23_DraftGetReturns ==
    \A p \in Callers :
        /\ ~(pc[p] = "lock" /\ mu = p)
        /\ (pc[p] = "body" /\ Top(p).call.name = "Get" /\ Present(Top(p).call.key)
                /\ IsZero(ExpiryOf(Top(p).call.key)))
            => LET r == DraftGet(Cache, Top(p).call.key, now)
               IN  r.ok /\ r.value = ValueOf(Top(p).call.key) /\ ~r.remove
        /\ (pc[p] = "unlock" /\ Top(p).call.name = "Get") => Len(stack[p]) = 1

====
